---- MODULE Spec2Model ----
(***************************************************************************)
(* Model of scraping/basic_playground: the run driver (main), the per-URL  *)
(* pipeline (process_url, extract_with_gemini), metadata assembly          *)
(* (make_meta) and the status registry (status_codes.py).                  *)
(*                                                                         *)
(* Python values are represented as follows.  A str is a sequence of       *)
(* one-character strings (so that strip() and startswith() are computed    *)
(* character by character); None is the one-element sequence <<"None">>,   *)
(* whose element is not a character, so no str equals it.  Durations and   *)
(* token counts are opaque labels <<name>> or <<name, attempt>>, so that  *)
(* a figure in the metadata names the attempt it was measured in.  A dict  *)
(* is a function whose domain is its key set.  Dictionary keys and the     *)
(* texts of the status registry are TLA+ strings.                          *)
(*                                                                         *)
(* Three specifications share the actions: Spec (the run driver over every *)
(* urls.txt up to MaxLines lines), SpecAttempts (the retry loop over every *)
(* configured attempt count up to MaxAttempts) and SpecLookup (the status  *)
(* registry on its own).                                                   *)
(***************************************************************************)
EXTENDS Integers, Sequences, FiniteSets, TLC

\* ------------------------------------------------------------------------
\* Bounds of the model
\* ------------------------------------------------------------------------
\* longest urls.txt considered, in lines
MaxLines == 2
\* largest configured GEMINI_MAX_ATTEMPTS considered
MaxAttempts == 2
\* how often one name is looked up again in the registry
MaxLookups == 3
\* longest markup considered, in pieces
MaxChunks == 3
\* how often phone extraction is run again on one markup
MaxPhoneRuns == 2
\* most clickable elements on a page
MaxButtons == 2
\* how often the click script is run on one page
MaxScriptRuns == 2

None == <<"None">>

Range(s) == {s[i] : i \in DOMAIN s}

\* dict.get(key, default)
DictGet(d, key, default) == IF key \in DOMAIN d THEN d[key] ELSE default

\* ------------------------------------------------------------------------
\* status_codes.py
\* ------------------------------------------------------------------------
STATUS_DEFINITIONS ==
  <<
    [cd_std |-> "000000", cd_name |-> "SUCCESS",
     cd_desc |-> "Request completed successfully with a high-confidence extraction result."],
    [cd_std |-> "000050", cd_name |-> "PARTIAL_SUCCESS",
     cd_desc |-> "Request completed but some fields are missing, low-confidence, or degraded."],
    [cd_std |-> "000100", cd_name |-> "CRAWL_FAILED",
     cd_desc |-> "Generic crawl failure (navigation, page load, or unknown browser error)."],
    [cd_std |-> "000101", cd_name |-> "NO_CONTENT_EXTRACTED",
     cd_desc |-> "Page loaded but no usable content could be extracted (empty or stripped body)."],
    [cd_std |-> "000102", cd_name |-> "CRAWL_TIMEOUT",
     cd_desc |-> "Crawl exceeded the configured timeout before the wait condition was satisfied."],
    [cd_std |-> "000103", cd_name |-> "CRAWL_INTERACTION_ERROR",
     cd_desc |-> "Crawl failed during page interaction (clicks/JS execution/scrolling)."],
    [cd_std |-> "000104", cd_name |-> "CRAWL_HTTP_ERROR",
     cd_desc |-> "Crawl received a non-2xx HTTP status code from the target URL."],
    [cd_std |-> "000105", cd_name |-> "CRAWL_BLOCKED_OR_CAPTCHA",
     cd_desc |-> "Crawl appears to be blocked by anti-bot measures, CAPTCHA, or similar protection."],
    [cd_std |-> "000200", cd_name |-> "GEMINI_CALL_FAILED",
     cd_desc |-> "Generic Gemini API failure (network, service, or SDK-level error)."],
    [cd_std |-> "000201", cd_name |-> "GEMINI_JSON_PARSE_FAILED",
     cd_desc |-> "Gemini returned a response that could not be parsed as the expected JSON schema."],
    [cd_std |-> "000202", cd_name |-> "GEMINI_RATE_LIMITED",
     cd_desc |-> "Gemini request was rejected due to rate limiting or quota exhaustion."],
    [cd_std |-> "000203", cd_name |-> "GEMINI_AUTH_FAILED",
     cd_desc |-> "Gemini request failed due to invalid or missing authentication credentials."],
    [cd_std |-> "000204", cd_name |-> "GEMINI_MODEL_NOT_FOUND",
     cd_desc |-> "Requested Gemini model does not exist or is not available to this project."],
    [cd_std |-> "000205", cd_name |-> "GEMINI_INVALID_OUTPUT_SCHEMA",
     cd_desc |-> "Gemini returned structured output that violates the declared JSON schema."],
    [cd_std |-> "000300", cd_name |-> "CONFIG_ERROR",
     cd_desc |-> "Generic configuration error (invalid settings or incompatible options)."],
    [cd_std |-> "000301", cd_name |-> "CONFIG_MISSING_ENV",
     cd_desc |-> "Required environment variable is missing (e.g. GEMINI_API_KEY)."],
    [cd_std |-> "000302", cd_name |-> "CONFIG_INVALID_ENV_VALUE",
     cd_desc |-> "Environment variable is present but has an invalid or unsupported value."],
    [cd_std |-> "000400", cd_name |-> "INPUT_ERROR",
     cd_desc |-> "Generic input error (malformed data or unsupported format)."],
    [cd_std |-> "000401", cd_name |-> "INPUT_URL_LIST_EMPTY",
     cd_desc |-> "No URLs were provided for processing (urls.txt empty or filtered out)."],
    [cd_std |-> "000402", cd_name |-> "INPUT_URL_INVALID",
     cd_desc |-> "One or more URLs are invalid, malformed, or use an unsupported scheme."],
    [cd_std |-> "000500", cd_name |-> "SYSTEM_ERROR",
     cd_desc |-> "Generic system/runtime error (unexpected exception in the pipeline)."],
    [cd_std |-> "000501", cd_name |-> "SYSTEM_IO_ERROR",
     cd_desc |-> "Filesystem or I/O operation failed (read/write permissions, missing file, etc.)."],
    [cd_std |-> "000502", cd_name |-> "SYSTEM_DEPENDENCY_MISSING",
     cd_desc |-> "Required library, binary, or runtime dependency is missing or not installed."],
    [cd_std |-> "000999", cd_name |-> "UNEXPECTED_ERROR",
     cd_desc |-> "An unexpected, uncategorised error occurred that does not match other codes."]
  >>

\* {row["cd_name"]: row for row in STATUS_DEFINITIONS}: a later row with the
\* same name replaces an earlier one.
STATUS_BY_NAME ==
  [n \in {STATUS_DEFINITIONS[i].cd_name : i \in DOMAIN STATUS_DEFINITIONS} |->
     STATUS_DEFINITIONS[
       CHOOSE i \in DOMAIN STATUS_DEFINITIONS :
         /\ STATUS_DEFINITIONS[i].cd_name = n
         /\ \A j \in DOMAIN STATUS_DEFINITIONS :
              STATUS_DEFINITIONS[j].cd_name = n => j <= i]]

\* ------------------------------------------------------------------------
\* main.py: schema and helpers
\* ------------------------------------------------------------------------
FIELD_NAMES ==
  << "url", "listing_title", "project_name", "area", "state", "price",
     "sq_ft", "bedrooms", "bathrooms", "property_type", "carpark",
     "floor_range", "phone_number", "description" >>

GEMINI_MODEL == <<"m">>

\* variant of empty_record: only the url key is created
empty_record_sparse(url) == [k \in {"url"} |-> url]

empty_record(url) ==
  [k \in Range(FIELD_NAMES) |-> IF k = "url" THEN url ELSE None]

\* variant of _status_row: unknown names fall back to SYSTEM_ERROR
_status_row_system_fallback(status_name) ==
  DictGet(STATUS_BY_NAME, status_name, STATUS_BY_NAME["SYSTEM_ERROR"])

_status_row(status_name) ==
  DictGet(STATUS_BY_NAME, status_name, STATUS_BY_NAME["UNEXPECTED_ERROR"])

\* the Python None held by a dict-typed or object-typed variable
NoneObj == [none |-> TRUE]
EmptyDict == [k \in {} |-> None]

\* datetime.utcnow().isoformat(timespec="seconds") + "Z": some timestamp
Timestamp == <<"utc">>

\* variant of make_meta: status_key is filled from cd_std as well
make_meta_code_as_key(status_name, crawl_duration_sec, total_duration_sec, gemini_model, attempts_, usage_, gemini_duration_sec) ==
  LET row == _status_row(status_name)
      u   == IF usage_ = NoneObj \/ DOMAIN usage_ = {} THEN EmptyDict ELSE usage_
  IN  [ status_key             |-> row.cd_std,
        status_code            |-> row.cd_std,
        gemini_model           |-> gemini_model,
        gemini_attempts        |-> attempts_,
        gemini_prompt_tokens   |-> DictGet(u, "prompt_token_count", None),
        gemini_response_tokens |-> DictGet(u, "candidates_token_count", None),
        gemini_total_tokens    |-> DictGet(u, "total_token_count", None),
        gemini_duration_sec    |-> gemini_duration_sec,
        crawl_duration_sec     |-> crawl_duration_sec,
        total_duration_sec     |-> total_duration_sec,
        timestamp_utc          |-> Timestamp ]

make_meta(status_name, crawl_duration_sec, total_duration_sec, gemini_model, attempts_, usage_, gemini_duration_sec) ==
  LET row == _status_row(status_name)
      u   == IF usage_ = NoneObj \/ DOMAIN usage_ = {} THEN EmptyDict ELSE usage_
  IN  [ status_key             |-> row.cd_name,
        status_code            |-> row.cd_std,
        gemini_model           |-> gemini_model,
        gemini_attempts        |-> attempts_,
        gemini_prompt_tokens   |-> DictGet(u, "prompt_token_count", None),
        gemini_response_tokens |-> DictGet(u, "candidates_token_count", None),
        gemini_total_tokens    |-> DictGet(u, "total_token_count", None),
        gemini_duration_sec    |-> gemini_duration_sec,
        crawl_duration_sec     |-> crawl_duration_sec,
        total_duration_sec     |-> total_duration_sec,
        timestamp_utc          |-> Timestamp ]

\* rec["meta"] = meta
WithMeta(rec, meta_) ==
  [k \in DOMAIN rec \cup {"meta"} |-> IF k = "meta" THEN meta_ ELSE rec[k]]

\* ------------------------------------------------------------------------
\* str helpers used by main() on the lines of urls.txt
\* ------------------------------------------------------------------------
Whitespace == {" "}

RECURSIVE lstrip(_)
lstrip(s) ==
  IF s # <<>> /\ Head(s) \in Whitespace THEN lstrip(Tail(s)) ELSE s

RECURSIVE rstrip(_)
rstrip(s) ==
  IF s # <<>> /\ s[Len(s)] \in Whitespace
  THEN rstrip(SubSeq(s, 1, Len(s) - 1)) ELSE s

\* str.strip()
strip(s) == rstrip(lstrip(s))

\* str.startswith(prefix) for a one-character prefix
startswith(s, c) == s # <<>> /\ Head(s) = c

\* a str is truthy when it is not empty
Truthy(s) == s # <<>> /\ s # None

\* variant of read_urls: the comment test is made on the stripped line
RECURSIVE read_urls_stripped_test(_)
read_urls_stripped_test(ls) ==
  IF ls = <<>> THEN <<>>
  ELSE IF Truthy(strip(Head(ls))) /\ ~startswith(strip(Head(ls)), "#")
       THEN <<strip(Head(ls))>> \o read_urls_stripped_test(Tail(ls))
       ELSE read_urls_stripped_test(Tail(ls))

\* [line.strip() for line in lines if line.strip() and not line.startswith("#")]
RECURSIVE read_urls(_)
read_urls(ls) ==
  IF ls = <<>> THEN <<>>
  ELSE IF Truthy(strip(Head(ls))) /\ ~startswith(Head(ls), "#")
       THEN <<strip(Head(ls))>> \o read_urls(Tail(ls))
       ELSE read_urls(Tail(ls))

\* json.dumps(results): a JSON array with one element per record, in order
json_dumps(rs) == [type |-> "array", items |-> rs]

\* ------------------------------------------------------------------------
\* Inputs of a run
\* ------------------------------------------------------------------------
\* lines of urls.txt: empty, blank, a comment, a '#' after whitespace, a URL, a URL
\* with surrounding whitespace
LineSet ==
  { <<>>, <<" ">>, <<"#", "a">>, <<" ", "#", "a">>, <<"a">>,
    <<" ", "b", " ">> }

\* URLS_FILE.read_text().splitlines(): the file as the sequence of its lines
FileContents(n) == UNION {[1..m -> LineSet] : m \in 0..n}

\* GEMINI_MAX_ATTEMPTS when the environment does not set it
DefaultMaxAttempts == 2

\* int(os.getenv("GEMINI_MAX_ATTEMPTS", "2")): any integer may be configured
AttemptConfigs == (0 - 1)..MaxAttempts

\* os.getenv("GEMINI_API_KEY") or os.getenv("GOOGLE_API_KEY")
ApiKeys == {None, <<>>, <<"k">>}

\* what the extraction collaborator may put in a decoded JSON object: no url
\* key and a key that is no field; another url and an explicit null; a null
\* url and every field
DataNoUrl ==
  ("listing_title" :> <<"T">>) @@ ("extra" :> <<"x">>)
DataOtherUrl ==
  ("url" :> <<"z">>) @@ ("price" :> None) @@ ("phone_number" :> <<"0", "1">>)
DataNullUrl ==
  [k \in Range(FIELD_NAMES) |-> IF k = "url" THEN None ELSE <<"v">>]

\* the object the collaborator extracts is a matter of the page, so of the URL
PageData(url) ==
  IF url = <<"a">> THEN DataNoUrl
  ELSE IF url = <<"b">> THEN DataOtherUrl
  ELSE DataNullUrl

\* response.text: not JSON, JSON that is no object, or a JSON object
ResponseTexts(url) ==
  { [valid |-> FALSE],
    [valid |-> TRUE, is_dict |-> FALSE],
    [valid |-> TRUE, is_dict |-> TRUE, data |-> PageData(url)] }

\* response.usage_metadata of the response to attempt k, when it reports one
UsageOf(k) ==
  [ prompt_token_count     |-> <<"prompt", k>>,
    candidates_token_count |-> <<"candidates", k>>,
    total_token_count      |-> <<"total", k>> ]

\* time.perf_counter() - t0 measured around the call of attempt k
DurationOf(k) == <<"gemini_t", k>>

\* client.models.generate_content raised instead of returning a response
Raised == [raised |-> TRUE]

\* the responses client.models.generate_content may return at attempt k
Responses(url, k) ==
  { [usage_metadata |-> u, text |-> t] :
      u \in {NoneObj, UsageOf(k)}, t \in ResponseTexts(url) }

\* names looked up in the registry: every registered name, and some others
LookupNames ==
  DOMAIN STATUS_BY_NAME
  \cup {"", "success", "Success", "000000", "UNKNOWN", "GEMINI_TIMEOUT"}

\* ------------------------------------------------------------------------
\* State
\* ------------------------------------------------------------------------
VARIABLES
  pc,                   \* position of main()
  file_exists,          \* URLS_FILE.exists()
  lines,                \* lines of urls.txt
  api_key,              \* the credential found in the environment
  GEMINI_MAX_ATTEMPTS,  \* configured maximum attempt count
  urls,                 \* main: urls
  i,                    \* main: index of the URL the loop is at (1-based)
  results,              \* main: results
  output,               \* content of OUTPUT_FILE, NoneObj while not written
  error,                \* exception that ended main(), None if none
  crawl_duration,       \* process_url: crawl_duration
  record,               \* extract_with_gemini / process_url / main: record
  meta,                 \* extract_with_gemini / process_url: meta
  attempts,             \* extract_with_gemini: attempts
  usage,                \* extract_with_gemini: usage
  gemini_duration,      \* extract_with_gemini: gemini_duration
  calls,                \* generate_content invocations for the current URL
  response,             \* outcome of the latest invocation for this URL
  lookup_name,          \* registry lookups: the name looked up
  lookup_rows,          \* registry lookups: the rows returned so far
  raw_html,             \* phone extraction: the markup given
  phone_runs,           \* phone extraction: the lists returned so far
  buttons,              \* interaction script: the page's clickable elements
  script_runs           \* interaction script: runs completed on the page

vars ==
  << pc, file_exists, lines, api_key, GEMINI_MAX_ATTEMPTS, urls, i, results,
     output, error, crawl_duration, record, meta, attempts, usage,
     gemini_duration, calls, response, lookup_name, lookup_rows, raw_html,
     phone_runs, buttons, script_runs >>

config_vars == << file_exists, lines, api_key, GEMINI_MAX_ATTEMPTS >>
lookup_vars == << lookup_name, lookup_rows >>
phone_vars == << raw_html, phone_runs >>
page_vars == << buttons, script_runs >>
helper_vars == << lookup_vars, phone_vars, page_vars >>
main_vars == << pc, urls, i, results, output, error >>
url_vars ==
  << crawl_duration, record, meta, attempts, usage, gemini_duration, calls,
     response >>

\* no per-URL call is active
UrlIdle ==
  /\ crawl_duration = None
  /\ record = NoneObj
  /\ meta = NoneObj
  /\ attempts = 0
  /\ usage = NoneObj
  /\ gemini_duration = None
  /\ calls = 0
  /\ response = NoneObj

MainIdle ==
  /\ pc = "load"
  /\ urls = <<>>
  /\ i = 1
  /\ results = <<>>
  /\ output = NoneObj
  /\ error = None

LookupIdle ==
  /\ lookup_name = "SUCCESS"
  /\ lookup_rows = <<>>

PhoneIdle ==
  /\ raw_html = <<>>
  /\ phone_runs = <<>>

PageIdle ==
  /\ buttons = <<>>
  /\ script_runs = 0

\* the environment main() starts in, with urls.txt of at most n lines and
\* GEMINI_MAX_ATTEMPTS among cfgs
InitRun(n, cfgs) ==
  /\ MainIdle
  /\ UrlIdle
  /\ LookupIdle
  /\ PhoneIdle
  /\ PageIdle
  /\ file_exists \in BOOLEAN
  /\ lines \in (IF file_exists THEN FileContents(n) ELSE {<<>>})
  /\ api_key \in ApiKeys
  /\ GEMINI_MAX_ATTEMPTS \in cfgs

\* the run driver: every urls.txt up to MaxLines; no attempt allowed, or the
\* default attempt count
Init == InitRun(MaxLines, {0, DefaultMaxAttempts})

\* the retry loop: every configured attempt count, urls.txt of one line
InitAttempts == InitRun(1, AttemptConfigs)

\* ------------------------------------------------------------------------
\* main(): reading urls.txt and the credential
\* ------------------------------------------------------------------------
\* main.py 479-480: urls.txt is missing
LoadUrlsMissingFile ==
  /\ pc = "load"
  /\ ~file_exists
  /\ pc' = "raised"
  /\ error' = <<"FileNotFoundError">>
  /\ UNCHANGED << config_vars, urls, i, results, output, url_vars, helper_vars >>

\* main.py 482-490: the URL list; an empty list ends the run at once
LoadUrls ==
  /\ pc = "load"
  /\ file_exists
  /\ urls' = read_urls(lines)
  /\ pc' = IF urls' = <<>> THEN "returned" ELSE "configure"
  /\ UNCHANGED << config_vars, i, results, output, error, url_vars, helper_vars >>

\* configure_gemini_client (42-49) without a credential
ConfigureClientFails ==
  /\ pc = "configure"
  /\ ~Truthy(api_key)
  /\ pc' = "raised"
  /\ error' = <<"RuntimeError">>
  /\ UNCHANGED << config_vars, urls, i, results, output, url_vars, helper_vars >>

\* configure_gemini_client with a credential, then main.py 498-508
ConfigureClient ==
  /\ pc = "configure"
  /\ Truthy(api_key)
  /\ results' = <<>>
  /\ i' = 1
  /\ pc' = "loop"
  /\ UNCHANGED << config_vars, urls, output, error, url_vars, helper_vars >>

\* ------------------------------------------------------------------------
\* process_url and extract_with_gemini for urls[i]
\* ------------------------------------------------------------------------
\* variant of CrawlFailedRecord: one attempt is recorded
CrawlFailedRecordOneAttempt(url) ==
  WithMeta(empty_record(url),
           make_meta("CRAWL_FAILED", None, None, GEMINI_MODEL, 1, NoneObj, None))

\* process_url 440-453
CrawlFailedRecord(url) ==
  WithMeta(empty_record(url),
           make_meta("CRAWL_FAILED", None, None, GEMINI_MODEL, 0, NoneObj, None))

\* variant of SystemErrorRecord: the status name is UNEXPECTED_ERROR
SystemErrorRecordUnexpected(url) ==
  WithMeta(empty_record(url),
           make_meta("UNEXPECTED_ERROR", None, None, GEMINI_MODEL, 0, NoneObj,
                     None))

\* main.py 512-525
SystemErrorRecord(url) ==
  WithMeta(empty_record(url),
           make_meta("SYSTEM_ERROR", None, None, GEMINI_MODEL, 0, NoneObj, None))

\* variant of BuildRecord: a missing field becomes the empty string
BuildRecordEmptyDefault(url, data) ==
  [k \in Range(FIELD_NAMES) |->
     IF k = "url" THEN url ELSE DictGet(data, k, <<>>)]

\* variant of BuildRecord: the url of the decoded object is kept when present
BuildRecordDataUrl(url, data) ==
  [k \in Range(FIELD_NAMES) |->
     IF k = "url" THEN DictGet(data, k, url) ELSE DictGet(data, k, None)]

\* the record built at 392-397 from the decoded object
BuildRecord(url, data) ==
  [k \in Range(FIELD_NAMES) |->
     IF k = "url" THEN url ELSE DictGet(data, k, None)]

\* fetch_page_text_and_html 103-138: an empty URL raises ValueError before
\* the crawler is called; otherwise crawler.arun raises, or reports
\* non-success (RuntimeError), or succeeds
FetchOutcomes(url) ==
  IF ~Truthy(strip(url)) THEN {"empty_url"}
  ELSE {"crawler_raises", "not_success", "ok"}

\* process_url 438-453: fetch_page_text_and_html raises; process_url returns
\* the CRAWL_FAILED record
FetchFails ==
  /\ pc = "loop"
  /\ i <= Len(urls)
  /\ FetchOutcomes(urls[i]) \ {"ok"} # {}
  /\ record' = CrawlFailedRecord(urls[i])
  /\ pc' = "append"
  /\ UNCHANGED << config_vars, urls, i, results, output, error, crawl_duration,
                  meta, attempts, usage, gemini_duration, calls, response, helper_vars >>

\* process_url 439: the fetch returns (page_text, raw_html, crawl_duration)
FetchSucceeds ==
  /\ pc = "loop"
  /\ i <= Len(urls)
  /\ "ok" \in FetchOutcomes(urls[i])
  /\ crawl_duration' = <<"crawl_t">>
  /\ pc' = "extract"
  /\ UNCHANGED << config_vars, urls, i, results, output, error, record, meta,
                  attempts, usage, gemini_duration, calls, response, helper_vars >>

\* extract_with_gemini 277-353: prompt built, loop variables initialised
ExtractPrepare ==
  /\ pc = "extract"
  /\ attempts' = 0
  /\ usage' = NoneObj
  /\ gemini_duration' = None
  /\ pc' = "attempt"
  /\ UNCHANGED << config_vars, urls, i, results, output, error, crawl_duration,
                  record, meta, calls, response, helper_vars >>

\* variant of MayAttempt: one attempt more than configured
MayAttemptInclusive(attempts_, max_attempts) == attempts_ <= max_attempts

\* while attempts < GEMINI_MAX_ATTEMPTS
MayAttempt(attempts_, max_attempts) == attempts_ < max_attempts

\* extract_with_gemini 355-364, 411-414: generate_content raises
GeminiAttemptRaises ==
  /\ pc = "attempt"
  /\ MayAttempt(attempts, GEMINI_MAX_ATTEMPTS)
  /\ attempts' = attempts + 1
  /\ calls' = calls + 1
  /\ response' = Raised
  /\ UNCHANGED << pc, config_vars, urls, i, results, output, error,
                  crawl_duration, record, meta, usage, gemini_duration,
                  helper_vars >>

\* usage after the response resp, 367-379
UsageAfter(usage_, resp) ==
  IF resp.usage_metadata # NoneObj THEN resp.usage_metadata ELSE usage_

\* extract_with_gemini 355-414: generate_content returns resp; a decoded
\* object ends the call with (record, meta)
GeminiAttemptResponds(resp) ==
  /\ pc = "attempt"
  /\ MayAttempt(attempts, GEMINI_MAX_ATTEMPTS)
  /\ calls' = calls + 1
  /\ response' = resp
  /\ IF ~resp.text.valid
     THEN \* json.loads raises
          /\ attempts' = attempts + 1
          /\ gemini_duration' = DurationOf(attempts + 1)
          /\ usage' = UsageAfter(usage, resp)
          /\ UNCHANGED << pc, record, meta >>
     ELSE IF ~resp.text.is_dict
     THEN \* data.get raises after record = empty_record(url)
          /\ attempts' = attempts + 1
          /\ gemini_duration' = DurationOf(attempts + 1)
          /\ usage' = UsageAfter(usage, resp)
          /\ record' = empty_record(urls[i])
          /\ UNCHANGED << pc, meta >>
     ELSE /\ record' = BuildRecord(urls[i], resp.text.data)
          /\ meta' = make_meta("SUCCESS", crawl_duration, <<"total_t">>,
                               GEMINI_MODEL, attempts + 1,
                               UsageAfter(usage, resp),
                               DurationOf(attempts + 1))
          /\ attempts' = 0
          /\ usage' = NoneObj
          /\ gemini_duration' = None
          /\ pc' = "report"
  /\ UNCHANGED << config_vars, urls, i, results, output, error, crawl_duration,
                  helper_vars >>

GeminiAttempt ==
  /\ pc = "attempt"
  /\ \E resp \in Responses(urls[i], attempts + 1) : GeminiAttemptResponds(resp)

\* extract_with_gemini 416-428: the loop ended without a return
GeminiExhausted ==
  /\ pc = "attempt"
  /\ ~MayAttempt(attempts, GEMINI_MAX_ATTEMPTS)
  /\ record' = empty_record(urls[i])
  /\ meta' = make_meta("GEMINI_CALL_FAILED", crawl_duration, <<"total_t">>,
                       GEMINI_MODEL, attempts, usage, gemini_duration)
  /\ attempts' = 0
  /\ usage' = NoneObj
  /\ gemini_duration' = None
  /\ pc' = "report"
  /\ UNCHANGED << config_vars, urls, i, results, output, error, crawl_duration,
                  calls, response, helper_vars >>

\* process_url 455-472: the metadata is attached and the record returned
ReportResult ==
  /\ pc = "report"
  /\ record' = WithMeta(record, meta)
  /\ meta' = NoneObj
  /\ crawl_duration' = None
  /\ pc' = "append"
  /\ UNCHANGED << config_vars, urls, i, results, output, error, attempts, usage,
                  gemini_duration, calls, response, helper_vars >>

\* main.py 512-525: an exception escapes process_url from a statement that
\* no try block of the pipeline covers (277-353 before the loop, 458-470
\* after it); main builds the SYSTEM_ERROR record
PipelineRaises ==
  /\ pc \in {"extract", "report"}
  /\ record' = SystemErrorRecord(urls[i])
  /\ meta' = NoneObj
  /\ crawl_duration' = None
  /\ pc' = "append"
  /\ UNCHANGED << config_vars, urls, i, results, output, error, attempts, usage,
                  gemini_duration, calls, response, helper_vars >>

\* variant of list_append: the new record goes to the front
list_append_front(rs, r) == <<r>> \o rs

\* list.append
list_append(rs, r) == Append(rs, r)

\* main.py 527: results.append(record), and on to the next URL
AppendRecord ==
  /\ pc = "append"
  /\ results' = list_append(results, record)
  /\ i' = i + 1
  /\ record' = NoneObj
  /\ calls' = 0
  /\ response' = NoneObj
  /\ pc' = "loop"
  /\ UNCHANGED << config_vars, urls, output, error, crawl_duration, meta,
                  attempts, usage, gemini_duration, helper_vars >>

\* main.py 529-533: the loop is over, the output file is written
WriteOutput ==
  /\ pc = "loop"
  /\ i > Len(urls)
  /\ output' = json_dumps(results)
  /\ pc' = "done"
  /\ UNCHANGED << config_vars, urls, i, results, error, url_vars, helper_vars >>

Next ==
  \/ LoadUrlsMissingFile
  \/ LoadUrls
  \/ ConfigureClientFails
  \/ ConfigureClient
  \/ FetchFails
  \/ FetchSucceeds
  \/ ExtractPrepare
  \/ GeminiAttemptRaises
  \/ GeminiAttempt
  \/ GeminiExhausted
  \/ ReportResult
  \/ PipelineRaises
  \/ AppendRecord
  \/ WriteOutput

Spec == Init /\ [][Next]_vars

SpecAttempts == InitAttempts /\ [][Next]_vars

\* ------------------------------------------------------------------------
\* Registry lookups on their own: one name, looked up repeatedly
\* ------------------------------------------------------------------------
InitLookup ==
  /\ MainIdle
  /\ UrlIdle
  /\ PhoneIdle
  /\ PageIdle
  /\ file_exists = FALSE
  /\ lines = <<>>
  /\ api_key = None
  /\ GEMINI_MAX_ATTEMPTS = DefaultMaxAttempts
  /\ lookup_name \in LookupNames
  /\ lookup_rows = <<>>

\* row = _status_row(status_name)
Lookup ==
  /\ Len(lookup_rows) < MaxLookups
  /\ lookup_rows' = Append(lookup_rows, _status_row(lookup_name))
  /\ UNCHANGED << config_vars, main_vars, url_vars, lookup_name, phone_vars,
                  page_vars >>

NextLookup == Lookup

SpecLookup == InitLookup /\ [][NextLookup]_vars

\* ------------------------------------------------------------------------
\* extract_phone_candidates_from_html: the regular expressions
\* ------------------------------------------------------------------------
\* A pattern is a sequence of elements: the assertion \b, or a character
\* class with a repetition {min,max}.  A match is found as re finds it:
\* leftmost start, every repetition greedy, backtracking to shorter
\* repetitions when the rest of the pattern fails.
Digit == {"0", "1", "2", "3", "4", "5", "6", "7", "8", "9"}

\* \w
WordChars == Digit \cup {"a", "_"}

\* [-\s]
DashOrSpace == {"-"} \cup Whitespace

WordBoundary == [kind |-> "b"]

Rep(chars, min, max) == [kind |-> "cls", chars |-> chars, min |-> min, max |-> max]

Lit(c) == Rep({c}, 1, 1)

phone_patterns ==
  << \* \b01\d[-\s]?\d{3}[-\s]?\d{4}\b
     << WordBoundary, Lit("0"), Lit("1"), Rep(Digit, 1, 1),
        Rep(DashOrSpace, 0, 1), Rep(Digit, 3, 3), Rep(DashOrSpace, 0, 1),
        Rep(Digit, 4, 4), WordBoundary >>,
     \* \b01\d\d{7,8}\b
     << WordBoundary, Lit("0"), Lit("1"), Rep(Digit, 1, 1), Rep(Digit, 7, 8),
        WordBoundary >>,
     \* \b0\d{1,2}-\d{6,8}\b
     << WordBoundary, Lit("0"), Rep(Digit, 1, 2), Lit("-"), Rep(Digit, 6, 8),
        WordBoundary >>,
     \* \b6\d{8,11}\b
     << WordBoundary, Lit("6"), Rep(Digit, 8, 11), WordBoundary >> >>

IsWordAt(s, p) == p \in 1..Len(s) /\ s[p] \in WordChars

\* \b holds between position p - 1 and position p
AtBoundary(s, p) == IsWordAt(s, p - 1) # IsWordAt(s, p)

\* how many characters from position p on are in chars, at most max
RunLength(s, p, chars, max) ==
  LET ok(c) == \A j \in 0..(c - 1) : p + j <= Len(s) /\ s[p + j] \in chars
      cs == { c \in 0..max : ok(c) }
  IN CHOOSE c \in cs : \A d \in cs : d <= c

RECURSIVE MatchAt(_, _, _, _)
RECURSIVE TryCounts(_, _, _, _, _)

\* the position after the match of elements k.. of pat that starts at p,
\* 0 when there is none
MatchAt(pat, k, s, p) ==
  IF k > Len(pat) THEN p
  ELSE IF pat[k].kind = "b"
  THEN IF AtBoundary(s, p) THEN MatchAt(pat, k + 1, s, p) ELSE 0
  ELSE LET n == RunLength(s, p, pat[k].chars, pat[k].max)
       IN IF n < pat[k].min THEN 0 ELSE TryCounts(pat, k, s, p, n)

\* element k taken c times, then c - 1 times, ... down to its minimum
TryCounts(pat, k, s, p, c) ==
  IF c < pat[k].min THEN 0
  ELSE LET r == MatchAt(pat, k + 1, s, p + c)
       IN IF r # 0 THEN r ELSE TryCounts(pat, k, s, p, c - 1)

RECURSIVE ScanFrom(_, _, _)

\* the non-overlapping matches of pat in s from position p on, left to right
ScanFrom(pat, s, p) ==
  IF p > Len(s) + 1 THEN << >>
  ELSE LET e == MatchAt(pat, 1, s, p)
       IN IF e = 0 THEN ScanFrom(pat, s, p + 1)
          ELSE << [start |-> p, stop |-> e] >>
               \o ScanFrom(pat, s, IF e > p THEN e ELSE p + 1)

finditer(pat, s) == ScanFrom(pat, s, 1)

\* m.group(0)
group0(s, m) == SubSeq(s, m.start, m.stop - 1)

\* variant of AddCandidate: appends without the membership test
AddCandidateAlways(candidates, val) == Append(candidates, val)

\* if val not in candidates: candidates.append(val)
AddCandidate(candidates, val) ==
  IF val \in Range(candidates) THEN candidates ELSE Append(candidates, val)

RECURSIVE AddMatches(_, _, _)

\* for m in re.finditer(pat, raw_html): ...
AddMatches(candidates, s, ms) ==
  IF ms = << >> THEN candidates
  ELSE AddMatches(AddCandidate(candidates, strip(group0(s, Head(ms)))), s,
                  Tail(ms))

RECURSIVE ForPatterns(_, _, _)

\* for pat in phone_patterns: ...
ForPatterns(candidates, pats, s) ==
  IF pats = << >> THEN candidates
  ELSE ForPatterns(AddMatches(candidates, s, finditer(Head(pats), s)),
                   Tail(pats), s)

extract_phone_candidates_from_html(html) == ForPatterns(<< >>, phone_patterns, html)

\* ------------------------------------------------------------------------
\* Phone extraction on its own: one markup, extracted from repeatedly
\* ------------------------------------------------------------------------
\* pieces of markup; a markup is up to MaxChunks of them, one after another
PhoneChunks ==
  { << "0", "1", "7", "-", "7", "8", "7", " ", "0", "2", "6", "0" >>,  \* 017-787 0260: first pattern
    << " ", "0", "1", "7", "7", "8", "7", "0", "2", "6", "0", " " >>,  \* 0177870260 between blanks: first and second pattern
    << "0", "1", "7", "-", "7", "8", "7", "0", "2", "6", "0" >>,  \* 017-7870260: first and third pattern
    << "0", "3", "-", "1", "2", "3", "4", "5", "6", "7", "8" >>,  \* 03-12345678: third pattern
    << "6", "0", "1", "2", "3", "4", "5", "6", "7", "8", "9" >>,  \* 60123456789: fourth pattern
    << "6" >>, << " " >>, << "a" >> }

RECURSIVE Concat(_)

Concat(ss) == IF ss = << >> THEN << >> ELSE Head(ss) \o Concat(Tail(ss))

Markups(n) == { Concat(cs) : cs \in UNION { [1..k -> PhoneChunks] : k \in 0..n } }

InitPhones ==
  /\ MainIdle
  /\ UrlIdle
  /\ LookupIdle
  /\ PageIdle
  /\ file_exists = FALSE
  /\ lines = << >>
  /\ api_key = None
  /\ GEMINI_MAX_ATTEMPTS = DefaultMaxAttempts
  /\ raw_html \in Markups(MaxChunks)
  /\ phone_runs = << >>

\* phones = extract_phone_candidates_from_html(raw_html)
ExtractPhones ==
  /\ Len(phone_runs) < MaxPhoneRuns
  /\ phone_runs' = Append(phone_runs, extract_phone_candidates_from_html(raw_html))
  /\ UNCHANGED << config_vars, main_vars, url_vars, lookup_vars, raw_html,
                  page_vars >>

NextPhones == ExtractPhones

SpecPhones == InitPhones /\ [][NextPhones]_vars

\* ------------------------------------------------------------------------
\* build_js_commands: the click script, run on one page
\* ------------------------------------------------------------------------
\* An element of the page is a record: text (innerText, else textContent,
\* else ""), dataset (the names set on btn.dataset, each to "1") and clicks
\* (the click() calls it has received).
LowerOf ==
  [c \in {"S", "C", "W", "A"} |->
     CASE c = "S" -> "s" [] c = "C" -> "c" [] c = "W" -> "w" [] c = "A" -> "a"]

\* .toLowerCase()
toLowerCase(s) ==
  [k \in 1..Len(s) |-> IF s[k] \in DOMAIN LowerOf THEN LowerOf[s[k]] ELSE s[k]]

\* txt.includes(k)
includes(txt, k) ==
  \E p \in 0..(Len(txt) - Len(k)) : SubSeq(txt, p + 1, p + Len(k)) = k

\* keywords.some(k => txt.includes(k))
some_includes(keywords, txt) == \E n \in 1..Len(keywords) : includes(txt, keywords[n])

wantShowMore == << << "s", "h", "o", "w", " ", "m", "o", "r", "e" >> >>

wantContact == << << "s", "h", "o", "w", " ", "c", "o", "n", "t", "a", "c", "t", " ", "n", "u", "m", "b", "e", "r" >>,
                 << "s", "h", "o", "w", " ", "c", "o", "n", "t", "a", "c", "t" >>,
                 << "s", "h", "o", "w", " ", "p", "h", "o", "n", "e", " ", "n", "u", "m", "b", "e", "r" >> >>

wantCall == << << "c", "a", "l", "l" >>, << "w", "h", "a", "t", "s", "a", "p", "p" >>, << "c", "h", "a", "t" >> >>

FlagShowMore == "__clickedShowMore"
FlagContact == "__clickedContact"
FlagCall == "__clickedCall"

\* const txt = (btn.innerText || btn.textContent || "").toLowerCase().trim()
TextOf(btn) == strip(toLowerCase(btn.text))

\* the body of buttons.forEach in clickByKeywords, for one element
ClickButton(btn, keywords, flagName) ==
  IF TextOf(btn) = << >> THEN btn
  ELSE IF flagName \in btn.dataset THEN btn
  ELSE IF some_includes(keywords, TextOf(btn))
  THEN [btn EXCEPT !.dataset = @ \cup {flagName}, !.clicks = @ + 1]
  ELSE btn

\* clickByKeywords(keywords, flagName) over the elements bs
clickByKeywords(bs, keywords, flagName) ==
  [k \in 1..Len(bs) |-> ClickButton(bs[k], keywords, flagName)]

\* the third command of build_js_commands
RunClickScript(bs) ==
  clickByKeywords(
    clickByKeywords(
      clickByKeywords(bs, wantShowMore, FlagShowMore),
      wantContact, FlagContact),
    wantCall, FlagCall)

ButtonTexts ==
  { << >>, << " " >>,
    << " ", "S", "h", "o", "w", " ", "m", "o", "r", "e", " " >>,
    << "s", "h", "o", "w", " ", "c", "o", "n", "t", "a", "c", "t", " ", "n", "u", "m", "b", "e", "r" >>,
    << "C", "a", "l", "l" >>,
    << "W", "h", "a", "t", "s", "A", "p", "p", " ", "c", "h", "a", "t" >>,
    << "c", "a", "l", "l", " ", "t", "o", " ", "s", "h", "o", "w", " ", "c", "o", "n", "t", "a", "c", "t" >>,
    << "s", "h", "o", "w", " ", "m", "o", "r", "e", " ", "c", "h", "a", "t" >>,
    << "b", "u", "y" >> }

\* a page as loaded: no element marked or clicked yet
NewButton(text) == [text |-> text, dataset |-> {}, clicks |-> 0]

Pages(n) ==
  UNION { [1..k -> { NewButton(t) : t \in ButtonTexts }] : k \in 0..n }

InitPage ==
  /\ MainIdle
  /\ UrlIdle
  /\ LookupIdle
  /\ PhoneIdle
  /\ file_exists = FALSE
  /\ lines = << >>
  /\ api_key = None
  /\ GEMINI_MAX_ATTEMPTS = DefaultMaxAttempts
  /\ buttons \in Pages(MaxButtons)
  /\ script_runs = 0

\* one run of the script on the page
RunScript ==
  /\ script_runs < MaxScriptRuns
  /\ buttons' = RunClickScript(buttons)
  /\ script_runs' = script_runs + 1
  /\ UNCHANGED << config_vars, main_vars, url_vars, lookup_vars, phone_vars >>

NextPage == RunScript

SpecPage == InitPage /\ [][NextPage]_vars

\* ------------------------------------------------------------------------
\* Properties
\* ------------------------------------------------------------------------
StatusOf(R) == R["meta"].status_key

\* the records main() holds: those appended, and the one about to be
Emitted == Range(results) \cup (IF pc = "append" THEN {record} ELSE {})

\* main() is in or past its URL loop
InLoop == pc \in {"loop", "extract", "attempt", "report", "append", "done"}

\* positions of the lines of urls.txt that are neither blank nor comments
\* (a comment is a line starting with '#')
UsableLines ==
  { j \in DOMAIN lines :
      /\ \E c \in Range(lines[j]) : c \notin Whitespace
      /\ lines[j][1] # "#" }

\* C1: at every point of the loop results holds one record per URL already
\* processed, the j-th record being that of the j-th URL, and at the end of
\* the run it holds exactly one record per URL of the list, in input order.
C1_OneRecordPerUrlInOrder ==
  /\ InLoop => /\ Len(results) = i - 1
               /\ Len(results) <= Len(urls)
               /\ \A j \in DOMAIN results : results[j]["url"] = urls[j]
  /\ pc = "done" => Len(results) = Len(urls)

\* two different URLs, the first ending in SYSTEM_ERROR, the second in SUCCESS
C1_Witness ==
  /\ pc = "done"
  /\ Len(urls) = 2
  /\ urls[1] # urls[2]
  /\ StatusOf(results[1]) = "SYSTEM_ERROR"
  /\ StatusOf(results[2]) = "SUCCESS"

\* C2 as stated: every run that has a credential and has ended has written
\* the output file, a JSON array with one element per non-blank, non-comment
\* line of urls.txt.
C2_OutputAlwaysWritten ==
  (Truthy(api_key) /\ file_exists /\ pc \in {"done", "returned", "raised"}) =>
    /\ output # NoneObj
    /\ output.type = "array"
    /\ Len(output.items) = Cardinality(UsableLines)

\* C2 amended: with at least one usable line (non-blank, not starting with
\* '#'; a line whose '#' follows whitespace is usable) a run that has a
\* credential never aborts, and when it ends the output file is a JSON array
\* with one element per usable line, whatever the statuses of the records;
\* with no usable line the run ends without writing the output file.
C2_OutputWrittenUnlessNoUrl ==
  /\ (Truthy(api_key) /\ file_exists) => pc # "raised"
  /\ pc = "done" => /\ UsableLines # {}
                    /\ output = json_dumps(results)
                    /\ output.type = "array"
                    /\ Len(output.items) = Cardinality(UsableLines)
  /\ pc = "returned" => UsableLines = {} /\ output = NoneObj
  /\ output # NoneObj => pc = "done"

\* a file with a comment and a '#' after whitespace, whose only URL failed
C2_Witness ==
  /\ pc = "done"
  /\ lines = << <<"#", "a">>, <<" ", "#", "a">> >>
  /\ Len(output.items) = 1
  /\ StatusOf(output.items[1]) = "CRAWL_FAILED"

\* R is the url-only record of url: every other declared field is null
UrlOnly(R, url) ==
  /\ R["url"] = url
  /\ \A k \in Range(FIELD_NAMES) \ {"url"} : R[k] = None

NoDurations(m) ==
  /\ m.crawl_duration_sec = None
  /\ m.gemini_duration_sec = None
  /\ m.total_duration_sec = None

\* the latest invocation returned a response whose text decodes to an object
IsObject(resp) ==
  /\ resp # NoneObj
  /\ resp # Raised
  /\ resp.text.valid
  /\ resp.text.is_dict

\* the record of a finished URL is appended and the loop goes on
AppendStep ==
  pc = "append" =>
    /\ results' = Append(results, record)
    /\ i' = i + 1
    /\ pc' = "loop"

\* once in its loop main() neither aborts nor returns early
NoAbort ==
  /\ InLoop => error = None
  /\ results # <<>> => InLoop

\* C3, states: a CRAWL_FAILED record is the url-only record of its URL with
\* attempt count 0 and no duration, and the collaborator was not invoked.
C3_State ==
  /\ \A j \in DOMAIN results :
       StatusOf(results[j]) = "CRAWL_FAILED" =>
         /\ UrlOnly(results[j], urls[j])
         /\ results[j]["meta"].gemini_attempts = 0
         /\ NoDurations(results[j]["meta"])
  /\ (pc = "append" /\ StatusOf(record) = "CRAWL_FAILED") =>
         /\ UrlOnly(record, urls[i])
         /\ record["meta"].gemini_attempts = 0
         /\ NoDurations(record["meta"])
         /\ calls = 0
         /\ response = NoneObj
  /\ NoAbort

\* C3, steps: a failed fetch (the loop goes from its head straight to the
\* append) yields the CRAWL_FAILED record and nothing else.
C3_Step ==
  /\ (pc = "loop" /\ pc' = "append") =>
       /\ StatusOf(record') = "CRAWL_FAILED"
       /\ calls' = 0
       /\ results' = results
  /\ AppendStep

\* C3: a failed fetch yields exactly one record for the URL, CRAWL_FAILED,
\* url-only, attempt count 0, durations null, without any invocation of the
\* extraction collaborator, and the run continues with the next URL.
C3_CrawlFailed == []C3_State /\ [][C3_Step]_vars

\* the first URL failed at the fetch, the second was extracted
C3_Witness ==
  /\ pc = "done"
  /\ Len(results) = 2
  /\ StatusOf(results[1]) = "CRAWL_FAILED"
  /\ StatusOf(results[2]) = "SUCCESS"

\* the number of attempts the loop makes
AttemptLimit == IF GEMINI_MAX_ATTEMPTS > 0 THEN GEMINI_MAX_ATTEMPTS ELSE 0

\* C4 as stated: for every configured GEMINI_MAX_ATTEMPTS, exhaustion gives
\* the url-only GEMINI_CALL_FAILED record whose attempt count is the
\* configured maximum, which is the number of invocations.
C4_AttemptsEqualConfigured ==
  (pc = "report" /\ meta.status_key = "GEMINI_CALL_FAILED") =>
    /\ UrlOnly(record, urls[i])
    /\ meta.gemini_attempts = GEMINI_MAX_ATTEMPTS
    /\ calls = GEMINI_MAX_ATTEMPTS

C4_State ==
  /\ pc = "attempt" =>
       /\ attempts = calls
       /\ attempts <= AttemptLimit
       /\ ~IsObject(response)
  /\ (pc = "report" /\ meta.status_key = "GEMINI_CALL_FAILED") =>
       /\ ~IsObject(response)
       /\ UrlOnly(record, urls[i])
       /\ DOMAIN record = Range(FIELD_NAMES)
       /\ meta.gemini_attempts = AttemptLimit
       /\ calls = AttemptLimit

C4_Step ==
  (pc = "attempt" /\ attempts >= AttemptLimit /\ pc' # pc) =>
    /\ pc' = "report"
    /\ meta'.status_key = "GEMINI_CALL_FAILED"
    /\ calls' = calls

\* C4 amended: when every attempt has failed the record is url-only, its
\* status GEMINI_CALL_FAILED, and its attempt count and the number of
\* invocations both equal the configured maximum when that is >= 0, and 0
\* when the configured maximum is negative.
C4_Exhausted == []C4_State /\ [][C4_Step]_vars

\* two attempts configured, both made, the last one raised
C4_Witness ==
  /\ pc = "report"
  /\ meta.status_key = "GEMINI_CALL_FAILED"
  /\ GEMINI_MAX_ATTEMPTS = 2
  /\ meta.gemini_attempts = 2
  /\ calls = 2
  /\ response = Raised

C5_State ==
  /\ pc = "attempt" => ~IsObject(response)
  /\ pc = "report" => (IsObject(response) <=> meta.status_key = "SUCCESS")
  /\ (pc = "report" /\ IsObject(response)) =>
       /\ calls >= 1
       /\ calls <= GEMINI_MAX_ATTEMPTS
       /\ meta.gemini_attempts = calls
       /\ DOMAIN record = Range(FIELD_NAMES)
       /\ record["url"] = urls[i]
       /\ \A k \in Range(FIELD_NAMES) \ {"url"} :
            record[k] = DictGet(response.text.data, k, None)

C5_Step ==
  pc \in {"report", "append"} => calls' \in {calls, 0}

\* C5: when attempt k is the first whose response decodes to an object, no
\* further invocation is made (k invocations in all), the status is SUCCESS,
\* the attempt count is k, and each non-url field is the value of that
\* object, null when the object has no such key.
C5_SuccessAtK == []C5_State /\ [][C5_Step]_vars

\* success at the second attempt, after a response that was no object
C5_Witness ==
  /\ pc = "report"
  /\ meta.status_key = "SUCCESS"
  /\ calls = 2
  /\ meta.gemini_attempts = 2
  /\ urls[i] = <<"a">>
  /\ record["listing_title"] = <<"T">>
  /\ record["price"] = None

\* C6 as stated: the keys of every record of results are exactly FIELD_NAMES.
C6_KeysAreFieldNames ==
  \A R \in Range(results) : DOMAIN R = Range(FIELD_NAMES)

\* C6 amended: every record placed in results has every declared field as a
\* key (null when unset, never absent) and, besides them, only the key
\* "meta" under which process_url and main attach the metadata.
C6_KeysAreFieldNamesAndMeta ==
  /\ \A R \in Emitted : DOMAIN R = Range(FIELD_NAMES) \cup {"meta"}
  /\ pc = "report" => DOMAIN record = Range(FIELD_NAMES)

\* a SUCCESS record whose object left fields out, and a failure record
C6_Witness ==
  /\ pc = "done"
  /\ Len(results) = 2
  /\ StatusOf(results[1]) = "SUCCESS"
  /\ urls[1] = <<"a">>
  /\ results[1]["price"] = None
  /\ StatusOf(results[2]) = "GEMINI_CALL_FAILED"

\* C7: the url of every record, built or emitted, is the input URL it was
\* made for, whatever url the decoded object carried.
C7_UrlIsInputUrl ==
  /\ \A j \in DOMAIN results : results[j]["url"] = urls[j]
  /\ pc \in {"report", "append"} => record["url"] = urls[i]
  /\ (pc = "attempt" /\ record # NoneObj) => record["url"] = urls[i]

\* the object carried another url
C7_Witness ==
  /\ pc = "report"
  /\ IsObject(response)
  /\ "url" \in DOMAIN response.text.data
  /\ response.text.data["url"] = <<"z">>
  /\ urls[i] = <<"b">>

C8_State ==
  /\ \A j \in DOMAIN results :
       StatusOf(results[j]) = "SYSTEM_ERROR" =>
         /\ UrlOnly(results[j], urls[j])
         /\ results[j]["meta"].gemini_attempts = 0
         /\ NoDurations(results[j]["meta"])
  /\ NoAbort

C8_Step ==
  /\ (pc = "extract" /\ pc' = "append") =>
       /\ StatusOf(record') = "SYSTEM_ERROR"
       /\ UrlOnly(record', urls[i])
  /\ (pc = "report" /\ pc' = "append") =>
       \/ record' = WithMeta(record, meta)
       \/ /\ StatusOf(record') = "SYSTEM_ERROR"
          /\ UrlOnly(record', urls[i])
  /\ pc \in {"extract", "attempt", "report"} =>
       /\ pc' \in {"extract", "attempt", "report", "append"}
       /\ error' = None
       /\ results' = results
  /\ AppendStep

\* C8: an exception escaping process_url becomes the url-only SYSTEM_ERROR
\* record (attempt count 0, durations null), which is appended, and the loop
\* goes on to the next URL: the run is not aborted.
C8_SystemError == []C8_State /\ [][C8_Step]_vars

\* the first URL ended in SYSTEM_ERROR and the second is being extracted
C8_Witness ==
  /\ pc = "extract"
  /\ i = 2
  /\ StatusOf(results[1]) = "SYSTEM_ERROR"

Registered == {STATUS_DEFINITIONS[j].cd_name : j \in DOMAIN STATUS_DEFINITIONS}

\* C9: every lookup returns a row of the registry; for a registered name it
\* is the row registered under it, for any other name the UNEXPECTED_ERROR
\* row (000999), and repeated lookups return the same row.
C9_LookupTotalExact ==
  \A n \in DOMAIN lookup_rows :
    LET r == lookup_rows[n]
    IN  /\ r \in Range(STATUS_DEFINITIONS)
        /\ r = lookup_rows[1]
        /\ lookup_name \in Registered =>
             /\ r.cd_name = lookup_name
             /\ \A j \in DOMAIN STATUS_DEFINITIONS :
                  STATUS_DEFINITIONS[j].cd_name = lookup_name =>
                    /\ r.cd_std = STATUS_DEFINITIONS[j].cd_std
                    /\ r.cd_desc = STATUS_DEFINITIONS[j].cd_desc
        /\ lookup_name \notin Registered =>
             /\ r.cd_name = "UNEXPECTED_ERROR"
             /\ r.cd_std = "000999"

\* an unregistered name looked up twice
C9_Witness ==
  /\ lookup_name = "success"
  /\ Len(lookup_rows) >= 2
  /\ lookup_rows[2].cd_std = "000999"

ProducedStatuses == {"SUCCESS", "CRAWL_FAILED", "GEMINI_CALL_FAILED", "SYSTEM_ERROR"}

FromRegistry(m) ==
  \E j \in DOMAIN STATUS_DEFINITIONS :
    /\ STATUS_DEFINITIONS[j].cd_name = m.status_key
    /\ STATUS_DEFINITIONS[j].cd_std = m.status_code

\* C10: the (status_key, status_code) of every metadata, built or emitted, is
\* the (cd_name, cd_std) of one row of the registry, and the status is one of
\* SUCCESS, CRAWL_FAILED, GEMINI_CALL_FAILED, SYSTEM_ERROR.
C10_StatusFromRegistry ==
  /\ \A R \in Emitted :
       /\ FromRegistry(R["meta"])
       /\ StatusOf(R) \in ProducedStatuses
  /\ pc = "report" =>
       /\ FromRegistry(meta)
       /\ meta.status_key \in ProducedStatuses

\* an exhausted URL and a URL that ended in SYSTEM_ERROR
C10_Witness ==
  /\ pc = "done"
  /\ Len(results) = 2
  /\ results[1]["meta"].status_key = "GEMINI_CALL_FAILED"
  /\ results[1]["meta"].status_code = "000200"
  /\ results[2]["meta"].status_key = "SYSTEM_ERROR"
  /\ results[2]["meta"].status_code = "000500"

\* ------------------------------------------------------------------------
\* Phone extraction
\* ------------------------------------------------------------------------
\* the strings pattern number p matches in s, with the positions they start at
MatchesOf(p, s) ==
  LET ms == finditer(phone_patterns[p], s)
  IN { [val |-> strip(group0(s, ms[k])), pat |-> p, start |-> ms[k].start] :
       k \in 1..Len(ms) }

AllMatchesOf(s) == UNION { MatchesOf(p, s) : p \in 1..Len(phone_patterns) }

\* m is seen before n: by an earlier pattern, or by the same pattern further
\* to the left
SeenBefore(m, n) == m.pat < n.pat \/ (m.pat = n.pat /\ m.start < n.start)

\* the first match that gives the string v
FirstMatch(v, s) ==
  CHOOSE m \in AllMatchesOf(s) :
    /\ m.val = v
    /\ \A n \in AllMatchesOf(s) : n.val = v /\ n # m => SeenBefore(m, n)

NoDuplicates(cs) == \A a, b \in 1..Len(cs) : a # b => cs[a] # cs[b]

FirstSeenOrder(cs, s) ==
  /\ Range(cs) = { m.val : m \in AllMatchesOf(s) }
  /\ \A a, b \in 1..Len(cs) :
       a < b => SeenBefore(FirstMatch(cs[a], s), FirstMatch(cs[b], s))

\* C11: every list extract_phone_candidates_from_html returns for a markup
\* has no string twice, holds exactly the strings the four patterns match,
\* each at the place of its first match (earlier pattern first, then further
\* left first), and every further run on the same markup returns the same
\* list.
C11_PhonesFirstSeenNoDuplicates ==
  \A r \in 1..Len(phone_runs) :
    /\ NoDuplicates(phone_runs[r])
    /\ FirstSeenOrder(phone_runs[r], raw_html)
    /\ phone_runs[r] = phone_runs[1]

\* two runs on a markup with two different numbers, where one string is
\* matched by two patterns and one string is matched twice by one pattern
C11_Witness ==
  /\ Len(phone_runs) = 2
  /\ Len(phone_runs[2]) >= 2
  /\ \E m, n \in AllMatchesOf(raw_html) : m.val = n.val /\ m.pat # n.pat
  /\ \E m, n \in AllMatchesOf(raw_html) :
       m.val = n.val /\ m.pat = n.pat /\ m.start # n.start

\* ------------------------------------------------------------------------
\* Click script
\* ------------------------------------------------------------------------
\* the text matches a keyword of at least one of the three groups
MatchesAGroup(btn) ==
  /\ TextOf(btn) # << >>
  /\ \/ some_includes(wantShowMore, TextOf(btn))
     \/ some_includes(wantContact, TextOf(btn))
     \/ some_includes(wantCall, TextOf(btn))

\* C12: once the script has run, however often, every element whose text
\* matches a keyword of at least one group has received exactly one click().
C12_ClickedExactlyOnce ==
  script_runs >= 1 =>
    \A k \in 1..Len(buttons) : MatchesAGroup(buttons[k]) => buttons[k].clicks = 1

\* ------------------------------------------------------------------------
\* Usage figures and extraction duration
\* ------------------------------------------------------------------------
\* the three token counts a metadata block holds
TokensIn(m) ==
  << m.gemini_prompt_tokens, m.gemini_response_tokens, m.gemini_total_tokens >>

\* the three token counts a response reports, each null when it reports none
TokensReported(resp) ==
  IF resp.usage_metadata = NoneObj THEN << None, None, None >>
  ELSE << resp.usage_metadata.prompt_token_count,
          resp.usage_metadata.candidates_token_count,
          resp.usage_metadata.total_token_count >>

\* a figure measured in an attempt before attempt k
FiguresBefore(k) ==
  UNION { Range(TokensReported([usage_metadata |-> UsageOf(j)])) \cup {DurationOf(j)} :
          j \in 1..(k - 1) }

\* C13: when extract_with_gemini returns after k attempts, the metadata holds
\* no figure of an attempt before k; on SUCCESS its token counts are those
\* the response to attempt k reported (null when it reported none) and its
\* extraction duration is the one measured in attempt k.
C13_FiguresOfDecidingAttempt ==
  pc = "report" =>
    /\ meta.status_key = "SUCCESS" =>
         /\ TokensIn(meta) = TokensReported(response)
         /\ meta.gemini_duration_sec = DurationOf(meta.gemini_attempts)
    /\ \A f \in Range(TokensIn(meta)) \cup {meta.gemini_duration_sec} :
         f \notin FiguresBefore(meta.gemini_attempts)

====
